---- MODULE Spec2Model ----
(***************************************************************************)
(* A model of ratatop's application loop (src/src/app.rs): App::run, the   *)
(* draw closure, App::render_processes, App::handle_crossterm_events and   *)
(* App::on_key_event.                                                      *)
(*                                                                         *)
(* The widgets the application calls are modelled by what they do to the   *)
(* application's state: ratatui's TableState (select_next,                 *)
(* select_previous, and the clamp Table's stateful render applies),        *)
(* ratatui's Terminal frame counter, tui-textarea's TextArea::input, and   *)
(* crossterm's events.  The terminal is assumed large enough for the       *)
(* table's inner area to be non-empty, so that the stateful render always  *)
(* reaches its selection clamp.                                            *)
(***************************************************************************)
EXTENDS Integers, Sequences, FiniteSets

VARIABLES
    pc,           \* position of App::run: "new", a phase of the loop body,
                  \* "done" (Ok returned), "failed" (Err returned), "panicked"
    running,      \* App.running
    processes,    \* App.system.processes(), in the map's iteration order
    cpu_usage,    \* App.system.global_cpu_usage(), as of the last refresh
    cpu,          \* App.cpu, the history of (frame count, usage) samples
    selected,     \* App.table_state.selected(), None or an index
    textarea,     \* App.textarea: lines, cursor, selection start
    search,       \* App.search
    frame_count,  \* the terminal's frame counter, Frame::count()
    rows,         \* the rows handed to the Table by the last render
    phases,       \* the phases the current loop iteration has executed so far
    axes,         \* the chart's axis bounds at the last render
    last_event,   \* what the iteration's handle_crossterm_events read
    io_error      \* whether terminal.draw, event::poll or event::read returned Err

vars == <<pc, running, processes, cpu_usage, cpu, selected, textarea, search,
          frame_count, rows, phases, axes, last_event, io_error>>

----------------------------------------------------------------------------
(* Bounds of the model. *)

\* Loop iterations explored by the interactive specification.
MaxTick == 5

\* Loop iterations explored by the history specification.
MaxHistTick == 6

\* Loop iterations beyond the refresh interval explored by the cadence
\* specification.
ExtraTicks == 2

\* Loop iterations explored by the readings specification.
MaxReadTick == 2

----------------------------------------------------------------------------
(* Text: a string is a sequence of one-character strings. *)

UpperCase == <<"A", "B", "C", "H", "S", "T">>
LowerCase == <<"a", "b", "c", "h", "s", "t">>

\* char::to_lowercase for the characters of the model
LowerChar(c) ==
    IF \E i \in 1..Len(UpperCase) : UpperCase[i] = c
    THEN LowerCase[CHOOSE i \in 1..Len(UpperCase) : UpperCase[i] = c]
    ELSE c

\* str::to_lowercase
ToLowercase(s) == [i \in 1..Len(s) |-> LowerChar(s[i])]

IsPrefix(t, s) == Len(t) <= Len(s) /\ SubSeq(s, 1, Len(t)) = t

\* a search that finds no occurrence of the empty needle
ContainsNonEmpty(s, t) ==
    /\ Len(t) > 0
    /\ \E i \in 0..(Len(s) - Len(t)) : SubSeq(s, i + 1, i + Len(t)) = t

\* str::contains: scan the haystack from the left for the needle
RECURSIVE Contains(_, _)
Contains(s, t) ==
    IF Len(t) > Len(s) THEN FALSE
    ELSE IF IsPrefix(t, s) THEN TRUE
    ELSE Contains(Tail(s), t)

DigitChars == <<"0", "1", "2", "3", "4", "5", "6", "7", "8", "9">>

\* to_string of a pid, and of a whole-number f32 (Display prints 50.0 as "50")
RECURSIVE DecimalText(_)
DecimalText(n) ==
    IF n < 10 THEN <<DigitChars[n + 1]>>
    ELSE Append(DecimalText(n \div 10), DigitChars[(n % 10) + 1])

IsDigit(c) == \E i \in 1..10 : DigitChars[i] = c
DigitValue(c) == (CHOOSE i \in 1..10 : DigitChars[i] = c) - 1

RECURSIVE ParseDigits(_, _)
ParseDigits(s, acc) ==
    IF s = <<>> THEN acc
    ELSE ParseDigits(Tail(s), acc * 10 + DigitValue(Head(s)))

\* f32::NAN, a reading that is not a number; readings are otherwise whole
\* percentages
NaN == -1

NaNText == <<"N", "a", "N">>

\* cpu.to_string()
CpuText(v) == IF v = NaN THEN NaNText ELSE DecimalText(v)

\* cell.parse::<f32>().unwrap_or(0.0) on the texts of the model: "NaN"
\* parses to NaN, and only text that is no float falls back to 0.0
ParseOrZero(s) ==
    IF s = NaNText THEN NaN
    ELSE IF s # <<>> /\ \A i \in 1..Len(s) : IsDigit(s[i])
    THEN ParseDigits(s, 0)
    ELSE 0

----------------------------------------------------------------------------
(* Process view: App::render_processes. *)

\* A table row: <<pid text, name, cpu text>>
ProcessRow(p) == <<DecimalText(p.pid), p.name, CpuText(p.cpu)>>

\* the loop that builds rows from system.processes()
BuildRows(ps) == [i \in 1..Len(ps) |-> ProcessRow(ps[i])]

\* the comparator with its operands swapped, a.partial_cmp(&b): ascending
CompareAscending(a, b) ==
    LET x == ParseOrZero(a[3])
        y == ParseOrZero(b[3])
    IN  IF x < y THEN "Less" ELSE IF y = x THEN "Equal" ELSE "Greater"

\* The sort_by comparator, b.partial_cmp(&a) on the parsed cpu cells: the
\* ordering of a relative to b in the sorted output.
Compare(a, b) ==
    LET x == ParseOrZero(a[3])
        y == ParseOrZero(b[3])
    IN  IF y < x THEN "Less" ELSE IF y = x THEN "Equal" ELSE "Greater"

\* Insert x after every element of the sorted s that does not order after it.
RECURSIVE InsertSorted(_, _)
InsertSorted(s, x) ==
    IF s = <<>> THEN <<x>>
    ELSE IF Compare(x, Head(s)) = "Less" THEN <<x>> \o s
    ELSE <<Head(s)>> \o InsertSorted(Tail(s), x)

\* slice::sort_by, a stable sort
RECURSIVE SortFrom(_, _)
SortFrom(sorted, rest) ==
    IF rest = <<>> THEN sorted
    ELSE SortFrom(InsertSorted(sorted, Head(rest)), Tail(rest))

\* partial_cmp(..).unwrap() panics when an operand is NaN.  The sort compares
\* every row of a list of two or more with another row at least once, so it
\* panics exactly when such a list holds a NaN reading.
SortPanics(rs) ==
    Len(rs) >= 2 /\ \E i \in 1..Len(rs) : ParseOrZero(rs[i][3]) = NaN

\* no sort at all: the rows stay in snapshot order
SortSkipped(rs) == rs

SortBy(rs) == SortFrom(<<>>, rs)

\* the retain predicate without the lower-casing of the cells
RowMatchesCaseSensitive(row, text) ==
    \E i \in 1..Len(row) : Contains(row[i], ToLowercase(text))

\* the retain predicate: some cell, lower-cased, contains the lower-cased text
RowMatches(row, text) ==
    \E i \in 1..Len(row) : Contains(ToLowercase(row[i]), ToLowercase(text))

\* Vec::retain
RECURSIVE Retain(_, _)
Retain(rs, text) ==
    IF rs = <<>> THEN <<>>
    ELSE IF RowMatches(Head(rs), text)
         THEN <<Head(rs)>> \o Retain(Tail(rs), text)
         ELSE Retain(Tail(rs), text)

\* textarea.lines().first().unwrap()
Query(ta) == ta.lines[1]

\* the rows render_processes hands to the Table
TableRows(ps, ta) == Retain(SortBy(BuildRows(ps)), Query(ta))

----------------------------------------------------------------------------
(* Selection: ratatui's TableState, as App uses it. *)

\* Option::None of table_state.selected()
None == -1

\* usize::MAX.  Only saturating +1/-1 and comparison with a row count are
\* applied to it, so any value above every row count stands for it.
UsizeMax == 2147483647

\* TableState::select_next: selected.map_or(0, |i| i.saturating_add(1))
SelectNext(sel) ==
    IF sel = None THEN 0
    ELSE IF sel = UsizeMax THEN UsizeMax
    ELSE sel + 1

\* TableState::select_previous: selected.map_or(usize::MAX, |i| i.saturating_sub(1))
SelectPrevious(sel) ==
    IF sel = None THEN UsizeMax
    ELSE IF sel = 0 THEN 0
    ELSE sel - 1

\* a render that wraps an index past the end around to the first row
RenderSelectionWrap(sel, n) ==
    IF n = 0 THEN None
    ELSE IF sel # None /\ sel >= n THEN 0
    ELSE sel

\* What render_stateful_widget does to the selection for a table of n rows:
\* an index at or past the end becomes the last row, and an empty table
\* has no selection.
RenderSelection(sel, n) ==
    IF n = 0 THEN None
    ELSE IF sel # None /\ sel >= n THEN n - 1
    ELSE sel

----------------------------------------------------------------------------
(* Query editing: tui-textarea's TextArea, as textarea.input(key) drives   *)
(* it.  lines is never empty; row and col count from 0; sel is the         *)
(* selection start, <<>> when no selection is active.                      *)

\* TextArea::default()
NewTextArea == [lines |-> << <<>> >>, row |-> 0, col |-> 0, sel |-> <<>>]

PosBefore(a, b) == a[1] < b[1] \/ (a[1] = b[1] /\ a[2] < b[2])

\* the text of lines with the range from position a up to position b removed
CutRange(lines, a, b) ==
    LET first == SubSeq(lines[a[1] + 1], 1, a[2])
        last  == SubSeq(lines[b[1] + 1], b[2] + 1, Len(lines[b[1] + 1]))
    IN  SubSeq(lines, 1, a[1]) \o << first \o last >>
            \o SubSeq(lines, b[1] + 2, Len(lines))

\* delete_selection: remove the selected text, if any, and end the selection
DeleteSelection(ta) ==
    IF ta.sel = <<>> THEN ta
    ELSE LET cur == <<ta.row, ta.col>>
             a   == IF PosBefore(ta.sel, cur) THEN ta.sel ELSE cur
             b   == IF PosBefore(ta.sel, cur) THEN cur ELSE ta.sel
         IN  [lines |-> CutRange(ta.lines, a, b),
              row |-> a[1], col |-> a[2], sel |-> <<>>]

HasSelection(ta) == ta.sel # <<>> /\ ta.sel # <<ta.row, ta.col>>

\* insert_char: the selection is replaced by the character
InsertChar(ta, c) ==
    LET t    == DeleteSelection(ta)
        line == t.lines[t.row + 1]
    IN  [t EXCEPT !.lines[t.row + 1] =
                      SubSeq(line, 1, t.col) \o <<c>> \o SubSeq(line, t.col + 1, Len(line)),
                  !.col = t.col + 1]

\* insert_newline: split the line at the cursor
InsertNewline(ta) ==
    LET t    == DeleteSelection(ta)
        line == t.lines[t.row + 1]
    IN  [t EXCEPT !.lines = SubSeq(t.lines, 1, t.row)
                      \o << SubSeq(line, 1, t.col), SubSeq(line, t.col + 1, Len(line)) >>
                      \o SubSeq(t.lines, t.row + 2, Len(t.lines)),
                  !.row = t.row + 1,
                  !.col = 0]

\* delete_newline: join the cursor's line to the one before it
DeleteNewline(ta) ==
    IF ta.row = 0 THEN ta
    ELSE LET prev == ta.lines[ta.row] IN
         [ta EXCEPT !.lines = SubSeq(ta.lines, 1, ta.row - 1)
                        \o << prev \o ta.lines[ta.row + 1] >>
                        \o SubSeq(ta.lines, ta.row + 2, Len(ta.lines)),
                    !.row = ta.row - 1,
                    !.col = Len(prev)]

\* delete_char (Backspace): the selection, else the character before the cursor
DeleteChar(ta) ==
    IF HasSelection(ta) THEN DeleteSelection(ta)
    ELSE LET t == [ta EXCEPT !.sel = <<>>] IN
         IF t.col = 0 THEN DeleteNewline(t)
         ELSE LET line == t.lines[t.row + 1] IN
              [t EXCEPT !.lines[t.row + 1] =
                            SubSeq(line, 1, t.col - 1) \o SubSeq(line, t.col + 1, Len(line)),
                        !.col = t.col - 1]

\* delete_line_by_head (Control+j)
DeleteLineByHead(ta) ==
    IF HasSelection(ta) THEN DeleteSelection(ta)
    ELSE LET t == [ta EXCEPT !.sel = <<>>] IN
         IF t.col = 0 THEN DeleteNewline(t)
         ELSE LET line == t.lines[t.row + 1] IN
              [t EXCEPT !.lines[t.row + 1] = SubSeq(line, t.col + 1, Len(line)),
                        !.col = 0]

\* delete_line_by_end (Control+k)
DeleteLineByEnd(ta) ==
    IF HasSelection(ta) THEN DeleteSelection(ta)
    ELSE LET t    == [ta EXCEPT !.sel = <<>>]
             line == t.lines[t.row + 1]
         IN  IF t.col < Len(line)
             THEN [t EXCEPT !.lines[t.row + 1] = SubSeq(line, 1, t.col)]
             ELSE IF t.row + 1 = Len(t.lines) THEN t
             ELSE [t EXCEPT !.lines = SubSeq(t.lines, 1, t.row)
                                \o << line \o t.lines[t.row + 2] >>
                                \o SubSeq(t.lines, t.row + 3, Len(t.lines))]

\* move_cursor_with_shift: a move with Shift starts or extends the selection,
\* a move without it cancels the selection; no move, no change
MoveCursor(ta, to, shift) ==
    IF to = <<>> THEN ta
    ELSE [ta EXCEPT !.sel = IF shift
                            THEN (IF ta.sel = <<>> THEN <<ta.row, ta.col>> ELSE ta.sel)
                            ELSE <<>>,
                    !.row = to[1],
                    !.col = to[2]]

\* CursorMove::Back
CursorBack(ta) ==
    IF ta.col > 0 THEN <<ta.row, ta.col - 1>>
    ELSE IF ta.row > 0 THEN <<ta.row - 1, Len(ta.lines[ta.row])>>
    ELSE <<>>

\* CursorMove::Head
CursorHead(ta) == <<ta.row, 0>>

----------------------------------------------------------------------------
(* Input events: crossterm's Event and KeyEvent. *)

KeyEvent(kind, mods, code) ==
    [type |-> "Key", kind |-> kind, mods |-> mods, code |-> code]

OtherEvent(type) ==
    [type |-> type, kind |-> "-", mods |-> "NONE", code |-> "-"]

\* KeyCode::Char(c) for the characters of the model
Chars == {"a", "c", "C", "j", "k", "q", "s"}

Modifiers == {"NONE", "SHIFT", "CONTROL", "ALT"}

\* the key presses of the interactive specification
KeyPresses ==
    {KeyEvent("Press", m, c) : m \in Modifiers, c \in Chars}
        \cup {KeyEvent("Press", m, c) :
                 m \in {"NONE", "SHIFT"}, c \in {"Esc", "Backspace", "Enter", "Left"}}

\* events handle_crossterm_events reads and drops
IgnoredEvents ==
    {KeyEvent("Release", "NONE", "q"), KeyEvent("Repeat", "NONE", "j"),
     KeyEvent("Release", "NONE", "s"), OtherEvent("Mouse"), OtherEvent("Resize"),
     OtherEvent("FocusGained")}

AllEvents == KeyPresses \cup IgnoredEvents

\* the events of the cadence and history specifications
FewEvents ==
    {KeyEvent("Press", "NONE", "Esc"), KeyEvent("Press", "NONE", "j"),
     KeyEvent("Release", "NONE", "q"), OtherEvent("Resize")}

\* TextArea::input with the default key mappings, for the keys of the model
TextAreaInput(ta, key) ==
    LET plain == key.mods \in {"NONE", "SHIFT"}
        shift == key.mods = "SHIFT"
        ctrl  == key.mods = "CONTROL"
    IN  IF key.code = "Enter" THEN InsertNewline(ta)
        ELSE IF key.code \in Chars /\ plain THEN InsertChar(ta, key.code)
        ELSE IF key.code = "Backspace" /\ plain THEN DeleteChar(ta)
        ELSE IF key.code = "j" /\ ctrl THEN DeleteLineByHead(ta)
        ELSE IF key.code = "k" /\ ctrl THEN DeleteLineByEnd(ta)
        ELSE IF key.code = "a" /\ ctrl THEN MoveCursor(ta, CursorHead(ta), FALSE)
        ELSE IF key.code = "c" /\ ctrl THEN [ta EXCEPT !.sel = <<>>]
        ELSE IF key.code = "Left" /\ plain THEN MoveCursor(ta, CursorBack(ta), shift)
        ELSE ta

----------------------------------------------------------------------------
(* App::on_key_event and App::handle_crossterm_events. *)

\* on_key_event with the match skipped while searching: text entry swallows
\* every key
KeyCommandSwallowed(key) ==
    IF search THEN "none"
    ELSE IF key.code \in {"Esc", "q"} \/ (key.mods = "CONTROL" /\ key.code \in {"c", "C"})
    THEN "quit"
    ELSE IF key.code = "j" THEN "select_next"
    ELSE IF key.code = "k" THEN "select_previous"
    ELSE IF key.code = "s" THEN "toggle_search"
    ELSE "none"

\* the match with the quit arm's modifier test dropped: c and C quit under
\* every modifier
KeyCommandAnyC(key) ==
    IF key.code \in {"Esc", "q", "c", "C"} THEN "quit"
    ELSE IF key.code = "j" THEN "select_next"
    ELSE IF key.code = "k" THEN "select_previous"
    ELSE IF key.code = "s" THEN "toggle_search"
    ELSE "none"

\* the arm of on_key_event's match that the key takes
KeyCommand(key) ==
    IF key.code \in {"Esc", "q"} \/ (key.mods = "CONTROL" /\ key.code \in {"c", "C"})
    THEN "quit"
    ELSE IF key.code = "j" THEN "select_next"
    ELSE IF key.code = "k" THEN "select_previous"
    ELSE IF key.code = "s" THEN "toggle_search"
    ELSE "none"

\* the key forwarded to the text area in both ViewModes
ForwardKeyAlways(key) == TextAreaInput(textarea, key)

\* the text area after on_key_event: the key is forwarded while searching
ForwardKey(key) == IF search THEN TextAreaInput(textarea, key) ELSE textarea

\* App::quit
Quit == running' = FALSE

\* App::on_key_event
OnKeyEvent(key) ==
    /\ textarea' = ForwardKey(key)
    /\ LET cmd == KeyCommand(key) IN
       /\ IF cmd = "quit" THEN Quit ELSE running' = running
       /\ selected' = IF cmd = "select_next" THEN SelectNext(selected)
                      ELSE IF cmd = "select_previous" THEN SelectPrevious(selected)
                      ELSE selected
       /\ search' = IF cmd = "toggle_search" THEN ~search ELSE search

----------------------------------------------------------------------------
(* App::run. *)

\* the refresh interval of the process snapshot
RefreshInterval == 60

\* a refresh on every tick
RefreshAlways(count) == count >= 0

\* frame.count() % 60 == 0
RefreshDue(count) == count % RefreshInterval = 0

\* the loop body with the draw before the push
NextPcDrawFirst(p) ==
    CASE p = "refresh_processes" -> "refresh_cpu"
      [] p = "refresh_cpu" -> "render"
      [] p = "render" -> "append"
      [] p = "append" -> "poll"
      [] OTHER -> "refresh_processes"

\* the loop body with the events drained: after a poll, poll again
NextPcDrain(p) ==
    CASE p = "refresh_processes" -> "refresh_cpu"
      [] p = "refresh_cpu" -> "append"
      [] p = "append" -> "render"
      [] OTHER -> "poll"

\* The order of the loop body: the draw closure's refreshes, push and draw,
\* then handle_crossterm_events.
NextPc(p) ==
    CASE p = "refresh_processes" -> "refresh_cpu"
      [] p = "refresh_cpu" -> "append"
      [] p = "append" -> "render"
      [] p = "render" -> "poll"
      [] OTHER -> "refresh_processes"

Process(pid, name, usage) == [pid |-> pid, name |-> name, cpu |-> usage]

\* Process snapshots the metric source can return: pids are unique within
\* a snapshot, names and usages may repeat.
Snapshots ==
    { << Process(1, <<"a">>, 50), Process(2, <<"b", "a", "s", "h">>, 10),
         Process(3, <<"c", "a", "t">>, 90) >>,
      << Process(2, <<"b", "a", "s", "h">>, 10), Process(7, <<"C", "a", "t">>, 10),
         Process(1, <<"a">>, 50), Process(4, <<"s", "h">>, 50) >>,
      << Process(5, <<"T", "S">>, 0) >> }

FewSnapshots ==
    { << Process(1, <<"a">>, 50), Process(3, <<"c", "a", "t">>, 90) >>,
      << Process(5, <<"T", "S">>, 0) >> }

\* snapshots with a reading that is not a number
NaNSnapshots ==
    { << Process(1, <<"a">>, 50), Process(2, <<"b", "a", "s", "h">>, NaN),
         Process(3, <<"c", "a", "t">>, 90) >>,
      << Process(5, <<"T", "S">>, NaN) >>,
      << Process(1, <<"a">>, 50), Process(3, <<"c", "a", "t">>, 90) >> }

\* global CPU usage readings
Usages == {0, 100}

OneUsage == {25}

\* no event: event::poll timed out, or nothing has been read yet
NoEvent == OtherEvent("None")

\* the match guard without the test of the kind: every key event is handled
IsKeyEvent(e) == e.type = "Key"

\* the match guard of handle_crossterm_events: a key event of kind Press
IsKeyPress(e) == e.type = "Key" /\ e.kind = "Press"

\* an x axis of a fixed window of three ticks
XBoundsWindow(history) == <<0, 3>>

\* the chart's x axis bounds, [0, cpu.len()]
XBounds(history) == <<0, Len(history)>>

\* the chart's y axis bounds, [0, 100]
YBounds == <<0, 100>>

\* the state App::new() constructs
InitWith(snaps, usages) ==
    /\ pc = "new"
    /\ running = TRUE
    /\ processes \in snaps
    /\ cpu_usage \in usages
    /\ cpu = <<>>
    /\ selected = None
    /\ textarea = NewTextArea
    /\ search = FALSE
    /\ frame_count = 0
    /\ rows = <<>>
    /\ phases = <<>>
    /\ axes = [x |-> <<0, 0>>, y |-> <<0, 0>>]
    /\ last_event = NoEvent
    /\ io_error = FALSE

\* run, up to the loop: running = true, select(Some(0)), the first loop test
Run ==
    /\ pc = "new"
    /\ running' = TRUE
    /\ selected' = 0
    /\ pc' = "refresh_processes"
    /\ UNCHANGED <<processes, cpu_usage, cpu, textarea, search, frame_count, rows, phases,
                   axes, last_event, io_error>>

\* if frame.count() % 60 == 0 { refresh_processes(All, true) }
RefreshProcesses(snaps, ticks) ==
    /\ pc = "refresh_processes"
    /\ frame_count < ticks
    /\ IF RefreshDue(frame_count)
       THEN /\ processes' \in snaps
            /\ phases' = <<"refresh_processes">>
       ELSE /\ processes' = processes
            /\ phases' = <<>>
    /\ last_event' = NoEvent
    /\ pc' = NextPc(pc)
    /\ UNCHANGED <<running, cpu_usage, cpu, selected, textarea, search, frame_count, rows,
                   axes, io_error>>

\* refresh_cpu_all()
RefreshCpu(usages) ==
    /\ pc = "refresh_cpu"
    /\ cpu_usage' \in usages
    /\ phases' = Append(phases, "refresh_cpu")
    /\ pc' = NextPc(pc)
    /\ UNCHANGED <<running, processes, cpu, selected, textarea, search, frame_count, rows,
                   axes, last_event, io_error>>

\* a history that keeps only the latest three samples
PushBounded(history, count, usage) ==
    IF Len(history) < 3 THEN Append(history, <<count, usage>>)
    ELSE Append(Tail(history), <<count, usage>>)

\* the history after cpu.push((frame.count(), global_cpu_usage()))
Push(history, count, usage) == Append(history, <<count, usage>>)

AppendSample ==
    /\ pc = "append"
    /\ cpu' = Push(cpu, frame_count, cpu_usage)
    /\ phases' = Append(phases, "append")
    /\ pc' = NextPc(pc)
    /\ UNCHANGED <<running, processes, cpu_usage, selected, textarea, search, frame_count,
                   rows, axes, last_event, io_error>>

\* what self.draw(frame) does to the application: the chart gets its axis
\* bounds, the table is built and rendered with the selection state
DrawWidgets ==
    /\ axes' = [x |-> XBounds(cpu), y |-> YBounds]
    /\ rows' = TableRows(processes, textarea)
    /\ selected' = RenderSelection(selected, Len(rows'))

\* self.draw(frame) and the rest of terminal.draw, which counts the frame
Draw ==
    /\ pc = "render"
    /\ ~SortPanics(BuildRows(processes))
    /\ DrawWidgets
    /\ frame_count' = frame_count + 1
    /\ phases' = Append(phases, "render")
    /\ pc' = NextPc(pc)
    /\ UNCHANGED <<running, processes, cpu_usage, cpu, textarea, search, last_event,
                   io_error>>

\* self.draw(frame) when the comparator's unwrap() meets a None: the thread
\* panics inside render_processes
DrawPanics ==
    /\ pc = "render"
    /\ SortPanics(BuildRows(processes))
    /\ pc' = "panicked"
    /\ UNCHANGED <<running, processes, cpu_usage, cpu, selected, textarea, search,
                   frame_count, rows, phases, axes, last_event, io_error>>

\* the failed step tried again instead of returned
PropagateRetry(p) == p

\* where run continues after an Err from terminal.draw or
\* handle_crossterm_events: the ? operator returns it
Propagate(p) == "failed"

\* terminal.draw returns Err before it calls the closure (the terminal's
\* size cannot be read): nothing of the iteration has run
DrawFailsEarly ==
    /\ pc = "refresh_processes"
    /\ io_error' = TRUE
    /\ pc' = Propagate(pc)
    /\ UNCHANGED <<running, processes, cpu_usage, cpu, selected, textarea, search,
                   frame_count, rows, phases, axes, last_event>>

\* terminal.draw returns Err after the closure (the frame cannot be
\* flushed): the widgets were rendered, the frame is not counted
DrawFailsLate ==
    /\ pc = "render"
    /\ ~SortPanics(BuildRows(processes))
    /\ DrawWidgets
    /\ io_error' = TRUE
    /\ pc' = Propagate(pc)
    /\ UNCHANGED <<running, processes, cpu_usage, cpu, textarea, search, frame_count,
                   phases, last_event>>

\* event::poll or event::read returns Err
InputFails ==
    /\ pc = "poll"
    /\ io_error' = TRUE
    /\ pc' = Propagate(pc)
    /\ UNCHANGED <<running, processes, cpu_usage, cpu, selected, textarea, search,
                   frame_count, rows, phases, axes, last_event>>

\* a loop that does not test running
LoopForever(next) == next

\* the loop test after handle_crossterm_events
LoopOrDone(next) == IF running' THEN next ELSE "done"

\* event::poll timed out: no event is read
PollTimeout ==
    /\ pc = "poll"
    /\ UNCHANGED <<running, processes, cpu_usage, cpu, selected, textarea, search,
                   frame_count, rows, axes, last_event, io_error>>
    /\ phases' = Append(phases, "poll")
    /\ pc' = LoopOrDone(NextPc(pc))

\* event::read returned a key press
ReadKeyPress(events) ==
    /\ pc = "poll"
    /\ \E e \in events :
         /\ IsKeyPress(e)
         /\ OnKeyEvent(e)
         /\ last_event' = e
    /\ phases' = Append(phases, "poll")
    /\ pc' = LoopOrDone(NextPc(pc))
    /\ UNCHANGED <<processes, cpu_usage, cpu, frame_count, rows, axes, io_error>>

\* event::read returned anything else
ReadIgnored(events) ==
    /\ pc = "poll"
    /\ \E e \in events :
         /\ ~IsKeyPress(e)
         /\ last_event' = e
    /\ UNCHANGED <<running, processes, cpu_usage, cpu, selected, textarea, search,
                   frame_count, rows, axes, io_error>>
    /\ phases' = Append(phases, "poll")
    /\ pc' = LoopOrDone(NextPc(pc))

\* The interactive specification: every key of the model, a few iterations.
Init == InitWith(Snapshots, OneUsage)

Next ==
    \/ Run
    \/ RefreshProcesses(Snapshots, MaxTick)
    \/ RefreshCpu(OneUsage)
    \/ AppendSample
    \/ Draw
    \/ PollTimeout
    \/ ReadKeyPress(AllEvents)
    \/ ReadIgnored(AllEvents)
    \/ DrawFailsEarly
    \/ DrawFailsLate
    \/ InputFails

Spec == Init /\ [][Next]_vars

\* The cadence specification: few keys, iterations past the refresh interval.
InitCadence == InitWith(FewSnapshots, OneUsage)

NextCadence ==
    \/ Run
    \/ RefreshProcesses(FewSnapshots, RefreshInterval + ExtraTicks)
    \/ RefreshCpu(OneUsage)
    \/ AppendSample
    \/ Draw
    \/ PollTimeout
    \/ ReadKeyPress(FewEvents)
    \/ ReadIgnored(FewEvents)
    \/ DrawFailsEarly
    \/ DrawFailsLate
    \/ InputFails

SpecCadence == InitCadence /\ [][NextCadence]_vars

\* The history specification: few keys, varying CPU usage readings.
InitHistory == InitWith(FewSnapshots, Usages)

NextHistory ==
    \/ Run
    \/ RefreshProcesses(FewSnapshots, MaxHistTick)
    \/ RefreshCpu(Usages)
    \/ AppendSample
    \/ Draw
    \/ PollTimeout
    \/ ReadKeyPress(FewEvents)
    \/ ReadIgnored(FewEvents)
    \/ DrawFailsEarly
    \/ DrawFailsLate
    \/ InputFails

SpecHistory == InitHistory /\ [][NextHistory]_vars

\* The readings specification: snapshots with a CPU reading that is not a
\* number.
InitReadings == InitWith(NaNSnapshots, OneUsage)

NextReadings ==
    \/ Run
    \/ RefreshProcesses(NaNSnapshots, MaxReadTick)
    \/ RefreshCpu(OneUsage)
    \/ AppendSample
    \/ Draw
    \/ DrawPanics
    \/ PollTimeout
    \/ ReadKeyPress(AllEvents)
    \/ ReadIgnored(AllEvents)
    \/ DrawFailsEarly
    \/ DrawFailsLate
    \/ InputFails

SpecReadings == InitReadings /\ [][NextReadings]_vars

----------------------------------------------------------------------------
(* Properties. *)

\* the step in which on_key_event handles the key press e
Pressed(e) == pc = "poll" /\ OnKeyEvent(e)

Key(mods, code) == KeyEvent("Press", mods, code)

\* Esc and q under every modifier of the model, and Control+c / Control+C
QuitKeys ==
    {Key(m, c) : m \in {"NONE", "SHIFT"}, c \in {"Esc"}}
        \cup {Key(m, "q") : m \in Modifiers}
        \cup {Key("CONTROL", "c"), Key("CONTROL", "C")}

\* C1: in Normal and in SearchEntry, whatever text the Query holds, a press
\* of Esc, q or Control+c/C sets running to false and the loop exits.
QuitKeysQuit ==
    [][\A e \in QuitKeys : Pressed(e) => (running' = FALSE /\ pc' = "done")]_vars

\* C1 witness: the loop has exited from SearchEntry with the Query "a"
\* buffered (the quit key was Esc or Control+c)
QuitFromSearchEntry ==
    pc = "done" /\ ~running /\ search /\ Query(textarea) = <<"a">>

\* C2, as claimed: at every render the Selection is an index of the displayed
\* list, and it is undefined only when the displayed list is empty.
SelectionWithinDisplayed ==
    pc = "poll" =>
        IF selected = None THEN Len(rows) = 0
        ELSE selected \in 0..(Len(rows) - 1)

\* C3: the History Buffer only grows by appends: a step leaves it alone or
\* adds one sample at its end; at the top of the loop it holds one sample per
\* frame drawn; the sample ticks are 0, 1, 2, ... (strictly increasing from
\* the first recorded tick).
HistoryAppendOnly ==
    /\ [](/\ pc \in {"refresh_processes", "done"} => Len(cpu) = frame_count
          /\ \A i \in 1..Len(cpu) : cpu[i][1] = i - 1
          /\ \A i, j \in 1..Len(cpu) : i < j => cpu[i][1] < cpu[j][1])
    /\ [][\/ cpu' = cpu
          \/ /\ pc = "append"
             /\ Len(cpu') = Len(cpu) + 1
             /\ SubSeq(cpu', 1, Len(cpu)) = cpu]_vars

\* C3 witness: three ticks are complete and the samples differ in value
HistoryOfThree ==
    /\ pc = "refresh_processes"
    /\ Len(cpu) = 3
    /\ cpu[1][2] # cpu[2][2]

\* a occurs in b as a scattered subsequence
RECURSIVE IsSubsequence(_, _)
IsSubsequence(a, b) ==
    IF a = <<>> THEN TRUE
    ELSE IF b = <<>> THEN FALSE
    ELSE IF Head(a) = Head(b) THEN IsSubsequence(Tail(a), Tail(b))
    ELSE IsSubsequence(a, Tail(b))

\* t occurs in s as a contiguous substring
HasSubstring(s, t) ==
    \E k \in 0..Len(s) : k + Len(t) <= Len(s) /\ SubSeq(s, k + 1, k + Len(t)) = t

\* the record has a field whose lower-cased text contains the lower-cased Query
FieldMatches(row, q) ==
    \E f \in 1..3 : HasSubstring(ToLowercase(row[f]), ToLowercase(q))

\* the position of a row in a list of distinct rows
IndexIn(list, row) == CHOOSE i \in 1..Len(list) : list[i] = row

Occurs(list, row) == \E i \in 1..Len(list) : list[i] = row

\* C4: at every render the displayed list is the ranked list restricted to
\* the records with a field matching the Query: every displayed row matches
\* and comes from the ranked list, every matching ranked row is displayed,
\* once, and displayed rows keep the ranked list's order.
FilterCorrect ==
    pc = "poll" =>
        LET ranked == SortBy(BuildRows(processes))
            q      == Query(textarea)
        IN  /\ \A i \in 1..Len(rows) :
                   Occurs(ranked, rows[i]) /\ FieldMatches(rows[i], q)
            /\ \A i \in 1..Len(ranked) :
                   FieldMatches(ranked[i], q) => Occurs(rows, ranked[i])
            /\ \A i, j \in 1..Len(rows) :
                   i < j => IndexIn(ranked, rows[i]) < IndexIn(ranked, rows[j])

\* C4 witness: a render under a Query that keeps some records, drops others
\* and matches one only through lower-casing
FilteredRender ==
    /\ pc = "poll"
    /\ Query(textarea) = <<"C">>
    /\ Len(rows) > 0
    /\ Len(rows) < Len(processes)

\* C5: the ranked sequence is a permutation of the snapshot's rows, its CPU
\* percentages never increase, and records with equal percentages keep the
\* snapshot's order.
RankedStable ==
    LET built  == BuildRows(processes)
        ranked == SortBy(built)
        src(i) == IndexIn(built, ranked[i])
    IN  /\ Len(ranked) = Len(built)
        /\ \A i \in 1..Len(ranked) : Occurs(built, ranked[i])
        /\ \A i \in 1..Len(built) : Occurs(ranked, built[i])
        /\ \A i, j \in 1..Len(ranked) :
               i < j => /\ processes[src(i)].cpu >= processes[src(j)].cpu
                        /\ processes[src(i)].cpu = processes[src(j)].cpu
                               => src(i) < src(j)

\* C5 witness: a snapshot with ties, rendered unfiltered in an order other
\* than the snapshot's
RankedWithTies ==
    /\ pc = "poll"
    /\ Len(rows) = 4
    /\ rows # BuildRows(processes)
    /\ \E i, j \in 1..Len(processes) : i < j /\ processes[i].cpu = processes[j].cpu

\* the snapshot of the example scenario
ExampleSnapshot ==
    << Process(1, <<"a">>, 50), Process(2, <<"b", "a", "s", "h">>, 10),
       Process(3, <<"c", "a", "t">>, 90) >>

ExampleRendered ==
    pc = "poll" /\ processes = ExampleSnapshot /\ Query(textarea) = <<"a">>

\* C6, as claimed: the example snapshot under Query "a" displays
\* (1,"a",50), (2,"bash",10) and excludes (3,"cat",90).
ExampleAsStated ==
    ExampleRendered =>
        rows = << << <<"1">>, <<"a">>, <<"5", "0">> >>,
                  << <<"2">>, <<"b", "a", "s", "h">>, <<"1", "0">> >> >>

\* C6, amended: "cat" contains "a" too, so the example snapshot under Query
\* "a" displays all three records in ranked order: (3,"cat",90), (1,"a",50),
\* (2,"bash",10).
ExampleAmended ==
    ExampleRendered =>
        rows = << << <<"3">>, <<"c", "a", "t">>, <<"9", "0">> >>,
                  << <<"1">>, <<"a">>, <<"5", "0">> >>,
                  << <<"2">>, <<"b", "a", "s", "h">>, <<"1", "0">> >> >>

\* C6 witness: the example snapshot has been rendered under Query "a"
ExampleReached == ExampleRendered /\ Len(rows) = 3

\* the phases of the iteration after the conditional refresh
BodyPhases ==
    IF phases # <<>> /\ phases[1] = "refresh_processes" THEN Tail(phases) ELSE phases

Ran(phase) == \E i \in 1..Len(phases) : phases[i] = phase

\* C7: in every iteration the process snapshot is refreshed exactly when the
\* tick counter is a multiple of 60, and the global CPU usage is refreshed in
\* every iteration.  (At the poll the iteration's tick is frame_count - 1.)
RefreshCadence ==
    pc = "poll" =>
        /\ Ran("refresh_processes") <=> (frame_count - 1) % 60 = 0
        /\ Ran("refresh_cpu")

\* C7 witness: the iteration of tick 60 has refreshed the process snapshot
SecondRefresh ==
    pc = "poll" /\ frame_count - 1 = 60 /\ Ran("refresh_processes")

\* C8: the phases of an iteration run in the order conditional refresh,
\* CPU refresh, append, render, poll; the render of tick t finds the sample
\* of tick t at the end of the History Buffer; input is handled after it.
PhaseOrder ==
    LET order == <<"refresh_cpu", "append", "render", "poll">>
        done  == Len(BodyPhases)
    IN  /\ done <= 4 /\ BodyPhases = SubSeq(order, 1, done)
        /\ pc = "refresh_cpu" => done = 0
        /\ pc = "append" => done = 1
        /\ pc = "render" => /\ done = 2
                            /\ Len(cpu) = frame_count + 1
                            /\ cpu[Len(cpu)][1] = frame_count
        /\ pc = "poll" => done = 3
        /\ (pc \in {"refresh_processes", "done"} /\ frame_count > 0) => done = 4

\* C8 witness: an iteration without the conditional refresh has run all of
\* its phases and handled a key
FullIteration ==
    /\ pc = "done"
    /\ frame_count = 2
    /\ phases = <<"refresh_cpu", "append", "render", "poll">>

SKeys == {Key(m, "s") : m \in Modifiers}

\* C9, as claimed: a press of s toggles ViewMode in both directions, leaves
\* the Query unchanged when pressed in Normal, and never removes text from
\* the Query.
ToggleKeepsQuery ==
    [][\A e \in SKeys :
          Pressed(e) =>
              /\ search' = ~search
              /\ ~search => Query(textarea') = Query(textarea)
              /\ IsSubsequence(Query(textarea), Query(textarea'))]_vars

\* C10, as claimed: a press of j or k in SearchEntry leaves the Selection
\* unchanged.
SearchEntryKeepsSelection ==
    [][\A e \in {Key("NONE", "j"), Key("NONE", "k")} :
          (Pressed(e) /\ search) => selected' = selected]_vars

\* the Selection the next render shows after this step, the process
\* snapshot being the same at that render
ShownNext == RenderSelection(selected', Len(TableRows(processes, textarea')))

\* a row of the displayed list is selected in Normal state, and the next
\* iteration does not refresh the process snapshot
NormalWithSelection ==
    /\ ~search
    /\ Len(rows) > 0
    /\ selected \in 0..(Len(rows) - 1)
    /\ frame_count % 60 # 0

InputState == <<running, search, textarea, selected>>

\* the key presses the claim lists as acting in Normal state: Esc,
\* unmodified q, Control+c/C, and unmodified s, j, k
ListedKeys ==
    {Key(m, "Esc") : m \in {"NONE", "SHIFT"}}
        \cup {Key("NONE", c) : c \in {"q", "s", "j", "k"}}
        \cup {Key("CONTROL", "c"), Key("CONTROL", "C")}

\* C12, as claimed: in Normal state every other key press, such as q, j, k
\* or s with a modifier, leaves running, ViewMode, Query and Selection
\* unchanged.
OtherKeysNoOp ==
    [][\A e \in KeyPresses \ ListedKeys :
          (Pressed(e) /\ ~search) => UNCHANGED InputState]_vars

\* the key presses whose key is none of Esc, q, j, k, s and that are not
\* Control+c/C
UnboundKeys ==
    {e \in KeyPresses :
        /\ e.code \notin {"Esc", "q", "j", "k", "s"}
        /\ ~(e.mods = "CONTROL" /\ e.code \in {"c", "C"})}

\* C12, amended: in Normal state a key press is a no-op when its key is none
\* of Esc, q, j, k, s and it is not Control+c/C; q, j, k and s act under
\* every modifier: q quits, j and k apply select_next and select_previous,
\* s toggles ViewMode.
UnboundKeysNoOp ==
    [][/\ \A e \in UnboundKeys : (Pressed(e) /\ ~search) => UNCHANGED InputState
       /\ \A m \in Modifiers :
            /\ Pressed(Key(m, "q")) => running' = FALSE
            /\ Pressed(Key(m, "j")) => selected' = SelectNext(selected)
            /\ Pressed(Key(m, "k")) => selected' = SelectPrevious(selected)
            /\ Pressed(Key(m, "s")) => search' = ~search]_vars

\* C12 witness: the key a was pressed in Normal state, and the iteration
\* ended in Normal state with the Query empty
UnboundKeyPressed ==
    /\ pc = "refresh_processes"
    /\ last_event = Key("NONE", "a")
    /\ ~search
    /\ running
    /\ Query(textarea) = <<>>

Polls == Cardinality({i \in 1..Len(phases) : phases[i] = "poll"})

\* C13: an iteration polls at most once, an event is read only after the
\* iteration's sample was appended and its frame rendered, and Query and
\* ViewMode change only in a step that reads an event; so a render pass and
\* one appended sample lie between any two transitions caused by key events.
OneEventPerIteration ==
    /\ [](Polls <= 1)
    /\ [][/\ (last_event' # last_event /\ last_event' # NoEvent) =>
                 /\ pc = "poll"
                 /\ BodyPhases = <<"refresh_cpu", "append", "render">>
                 /\ Len(cpu) = frame_count
                 /\ cpu[Len(cpu)][1] = frame_count - 1
          /\ (search' # search \/ textarea' # textarea \/ running' # running) =>
                 (last_event' # last_event /\ last_event' # NoEvent)]_vars

\* C13 witness: s and then a were handled in two consecutive iterations, each
\* with its own sample and frame
TwoKeysTwoFrames ==
    /\ pc = "refresh_processes"
    /\ search
    /\ Query(textarea) = <<"a">>
    /\ last_event = Key("NONE", "a")
    /\ frame_count = 2
    /\ Len(cpu) = 2

\* C14: an event that is not a key press (a key release or repeat, a mouse,
\* resize or other event) leaves running, ViewMode, Query and Selection
\* unchanged in both ViewModes, and its read is the iteration's poll.
IgnoredEventsIgnored ==
    [][\A e \in IgnoredEvents :
          (pc = "poll" /\ last_event' = e) =>
              /\ UNCHANGED InputState
              /\ phases' = Append(phases, "poll")
              /\ pc' = "refresh_processes"]_vars

\* C14 witness: the release of s was read in SearchEntry and ViewMode is
\* still SearchEntry
ReleaseIgnoredInSearch ==
    /\ pc = "refresh_processes"
    /\ search
    /\ last_event = KeyEvent("Release", "NONE", "s")
    /\ Query(textarea) = <<>>

\* C15: a failure of terminal.draw or of the event poll or read ends run
\* with the error: the loop is left at once, nothing is retried, and no
\* refresh, append, render or poll follows.
FailureIsFatal ==
    /\ [](io_error => pc = "failed")
    /\ [][pc # "failed"]_vars
    /\ [][io_error' # io_error =>
             /\ pc \in {"refresh_processes", "render", "poll"}
             /\ UNCHANGED <<cpu, frame_count, phases, running, last_event>>]_vars

\* C15 witness: run has failed after two counted frames, with running still
\* true
FailedAfterFrames ==
    /\ pc = "failed"
    /\ io_error
    /\ running
    /\ frame_count = 2
    /\ Len(cpu) \in {2, 3}

\* C16, as claimed: a NaN reading never aborts the loop; the render pass
\* completes with the record ranked as if its CPU were 0.0.
NaNNeverAborts ==
    /\ pc # "panicked"
    /\ (pc = "poll" /\ Query(textarea) = <<>>) => Len(rows) = Len(processes)

NaNRow == \E i \in 1..Len(processes) : processes[i].cpu = NaN

\* the snapshot with a NaN reading was being rendered when the comparator
\* panicked
NaNPanicked == pc = "panicked" /\ NaNRow

\* C17: with an empty Query the displayed list is the ranked sequence, every
\* record of the snapshot retained; the application starts in Normal state
\* with an empty Query, so the first render shows every record.
EmptyQueryIdentity ==
    /\ pc = "new" => (~search /\ Query(textarea) = <<>>)
    /\ (pc = "poll" /\ Query(textarea) = <<>>) =>
           /\ rows = SortBy(BuildRows(processes))
           /\ Len(rows) = Len(processes)
    /\ (pc = "poll" /\ frame_count = 1) => Len(rows) = Len(processes)

\* C17 witness: the first render, in Normal state with the Query empty,
\* shows all four records of the snapshot
FirstRenderShowsAll ==
    /\ pc = "poll"
    /\ frame_count = 1
    /\ ~search
    /\ Query(textarea) = <<>>
    /\ Len(rows) = 4

\* the loop has been entered and has not ended
Looping == pc \in {"refresh_processes", "refresh_cpu", "append", "render", "poll"}

\* C18: run returns Ok only after a quit key press was handled, and nothing
\* follows it; while running is true and no error occurs a poll leads to the
\* next iteration.
QuitOnlyExit ==
    /\ [](pc = "done" => (~running /\ ~io_error /\ last_event \in QuitKeys))
    /\ [](Looping => running)
    /\ [][pc # "done"]_vars
    /\ [][(pc = "poll" /\ last_event' \notin QuitKeys /\ ~io_error') =>
             (running' /\ pc' = "refresh_processes")]_vars

\* C18 witness: the loop has ended by q after three frames and samples
QuitAfterThreeFrames ==
    /\ pc = "done"
    /\ ~running
    /\ last_event = Key("NONE", "q")
    /\ frame_count = 3
    /\ Len(cpu) = 3

\* C19: the Query changes only in a step that handles a key press while
\* ViewMode is SearchEntry; no event received in Normal state and no
\* refresh, append or render changes it.
QueryEditedInSearchOnly ==
    [][Query(textarea') # Query(textarea) =>
          /\ pc = "poll"
          /\ search
          /\ IsKeyPress(last_event')]_vars

\* C19 witness: a and c were typed in SearchEntry and the key a pressed in
\* Normal state before them left the Query empty
TypedInSearch ==
    /\ pc = "refresh_processes"
    /\ search
    /\ Query(textarea) = <<"a", "c">>
    /\ last_event = Key("NONE", "c")
    /\ frame_count = 4

\* C20: after every render the x axis is [0, length of the history], the
\* tick of every sample lies inside it, the upper bound is one more than at
\* the render before, and the y axis is [0, 100].
SamplesInsideAxes ==
    /\ [](pc = "poll" =>
             /\ axes.x = <<0, Len(cpu)>>
             /\ axes.y = <<0, 100>>
             /\ \A i \in 1..Len(cpu) :
                    axes.x[1] <= cpu[i][1] /\ cpu[i][1] <= axes.x[2])
    /\ [][(pc = "render" /\ pc' = "poll") => axes'.x[2] = axes.x[2] + 1]_vars

\* C20 witness: the render of the fifth tick, with samples of both usages
FiveSamplesCharted ==
    /\ pc = "poll"
    /\ Len(cpu) = 5
    /\ axes.x = <<0, 5>>
    /\ cpu[1][2] = 0
    /\ cpu[5][2] = 100

====
